---- MODULE Spec2Model ----
(***************************************************************************)
(* Model of src/app.py: the document loader, the three normalizers         *)
(* (build_arrivals_df, build_workers_df, build_stations_df) and the script *)
(* body that Streamlit reruns on every interaction.                        *)
(*                                                                         *)
(* Encoding of Python / pandas values:                                     *)
(*   - a JSON object is a TLA+ function whose domain is its key set;       *)
(*   - a JSON key of `stations` is a string, modelled as a sequence of     *)
(*     one-character strings so that float()/str() are computed on it;     *)
(*   - JSON scalars that share a column with missing values are tagged     *)
(*     records ([t |-> "int", i |-> 3], ...);                              *)
(*   - a DataFrame is [t |-> "df", columns, rows]; the rows of a table     *)
(*     built from a dict are keyed by the dict key (row order of those     *)
(*     tables is not modelled), the rows of the arrivals table are a       *)
(*     sequence;                                                           *)
(*   - a raised exception is [t |-> "raise", exc |-> <name>].              *)
(* Pandas is assumed to upcast a column to object when strings are         *)
(* written into it (app.py line 63), as the versions the app targets do.   *)
(***************************************************************************)
EXTENDS Integers, Sequences, FiniteSets, TLC

VARIABLES
    raw_json,      \* st.session_state["raw_json"]; PyNone while unset
    uploaded,      \* value of st.file_uploader in the last run; NoFile if none
    upload_msg,    \* what the upload tab showed: "info", "success" or "error"
    df_arrivals,   \* table computed by the arrivals tab in the last run
    df_workers,    \* table computed by the workers tab in the last run
    df_st          \* table computed by the stations tab in the last run

vars == <<raw_json, uploaded, upload_msg, df_arrivals, df_workers, df_st>>

---------------------------------------------------------------------------
(* Bounds of the model *)

MaxUnits == 3      \* longest backlog["units"] list
MaxPostings == 2   \* largest postings_num of a unit
MaxGate == 3       \* longest arrivals["GATE"] list
MaxHour == 1       \* latest hour of an arrival timestamp
MaxScore == 1      \* largest performance score

---------------------------------------------------------------------------
(* Python and pandas values *)

PyNone == [t |-> "None"]
NaN == [t |-> "nan"]
NaT == [t |-> "nat"]
Raise(e) == [t |-> "raise", exc |-> e]
JInt(n) == [t |-> "int", i |-> n]
JFloat(whole, tenths) == [t |-> "float", w |-> whole, f |-> tenths]
JStr(chars) == [t |-> "str", s |-> chars]
JDict(fn) == [t |-> "dict", d |-> fn]
EmptyDict == <<>>

IsRaise(v) == "t" \in DOMAIN v /\ v.t = "raise"
IsDF(v) == "t" \in DOMAIN v /\ v.t = "df"
IsNA(v) == v = NaN \/ v = PyNone \/ v = NaT

\* dict.get(key, default)
Get(dict, key, default) == IF key \in DOMAIN dict THEN dict[key] ELSE default

\* columns of pd.DataFrame.from_dict(d, orient="index"): the union of the keys
RecordKeys(d) == UNION {DOMAIN d[k] : k \in DOMAIN d}

\* pd.DataFrame.from_dict(d, orient="index").rename_axis(idname).reset_index()
FromDictIndex(d, idname) ==
    LET cols == RecordKeys(d) IN
    [t |-> "df",
     columns |-> {idname} \cup cols,
     rows |-> [k \in DOMAIN d |->
                 [c \in {idname} \cup cols |->
                    IF c = idname THEN k
                    ELSE IF c \in DOMAIN d[k] THEN d[k][c] ELSE NaN]]]

---------------------------------------------------------------------------
(* build_stations_df *)

\* Python truth value `not x` of a backlog cell (NaN is truthy)
Falsy(x) == x = PyNone \/ (x.t = "dict" /\ DOMAIN x.d = {})

RECURSIVE SumPostingsAnyFlow(_, _)
\* variant that forgets the flow_type filter
SumPostingsAnyFlow(units, ft) ==
    IF units = <<>> THEN 0
    ELSE Get(Head(units), "postings_num", 0) + SumPostingsAnyFlow(Tail(units), ft)

RECURSIVE SumPostings(_, _)
\* sum(u.get("postings_num", 0) for u in units if u.get("flow_type") == ft);
\* "" stands for the None that u.get("flow_type") gives for a missing tag
SumPostings(units, ft) ==
    IF units = <<>> THEN 0
    ELSE LET u == Head(units) IN
         (IF Get(u, "flow_type", "") = ft THEN Get(u, "postings_num", 0) ELSE 0)
         + SumPostings(Tail(units), ft)

\* the nested function of build_stations_df; `"units" not in nan` raises
expand_backlog(backlog_data) ==
    IF backlog_data = NaN THEN Raise("TypeError")
    ELSE IF Falsy(backlog_data) \/ "units" \notin DOMAIN backlog_data.d
    THEN [backlog_SORT |-> 0, backlog_NONSORT |-> 0]
    ELSE [backlog_SORT |-> SumPostings(backlog_data.d.units, "SORT"),
          backlog_NONSORT |-> SumPostings(backlog_data.d.units, "NONSORT")]

\* lambda x: len(x.get("units", [])) if x and isinstance(x, dict) else 0
BacklogUnits(x) ==
    IF x = NaN \/ Falsy(x) THEN 0
    ELSE Len(Get(x.d, "units", <<>>))

\* variant that totals one column only
BacklogTotalSortOnly(bl) == bl.backlog_SORT

\* df_st[["backlog_SORT", "backlog_NONSORT"]].sum(axis=1)
BacklogTotal(bl) == bl.backlog_SORT + bl.backlog_NONSORT

BacklogColumns == {"backlog_units", "backlog_SORT", "backlog_NONSORT", "backlog_total"}

build_stations_df(raw) ==
    IF raw = PyNone \/ "stations" \notin DOMAIN raw THEN PyNone
    ELSE
      LET df == FromDictIndex(raw.stations, "station_id") IN
      IF "backlog" \notin df.columns THEN df
      ELSE IF \E k \in DOMAIN df.rows : IsRaise(expand_backlog(df.rows[k].backlog))
      THEN Raise("TypeError")
      ELSE
        LET kept == df.columns \ {"backlog"} IN
        [t |-> "df",
         columns |-> kept \cup BacklogColumns,
         rows |-> [k \in DOMAIN df.rows |->
            LET bl == expand_backlog(df.rows[k].backlog) IN
            [c \in kept \cup BacklogColumns |->
               CASE c = "backlog_units" -> BacklogUnits(df.rows[k].backlog)
                 [] c = "backlog_SORT" -> bl.backlog_SORT
                 [] c = "backlog_NONSORT" -> bl.backlog_NONSORT
                 [] c = "backlog_total" -> BacklogTotal(bl)
                 [] OTHER -> df.rows[k][c]]]]

---------------------------------------------------------------------------
(* build_arrivals_df *)

\* An arrival_datetime string: [t |-> "str", hh, mm] is a well-formed ISO
\* timestamp of that hour and minute, [t |-> "str", text] is anything else.
\* pd.to_datetime parses a cell to minutes since midnight; NaN becomes NaT.
to_datetime(cell) ==
    IF cell = NaN THEN NaT
    ELSE IF "hh" \in DOMAIN cell THEN [t |-> "ts", min |-> cell.hh * 60 + cell.mm]
    ELSE Raise("ValueError")

\* pd.DataFrame(list_of_dicts): one row per record, columns the union of keys
FromRecords(recs) ==
    LET cols == RecordKeys(recs) IN
    [t |-> "df",
     columns |-> cols,
     rows |-> [i \in 1..Len(recs) |->
                 [c \in cols |-> IF c \in DOMAIN recs[i] THEN recs[i][c] ELSE NaN]]]

\* df.empty: some axis has length 0
Empty(df) == df.columns = {} \/ DOMAIN df.rows = {}

\* index of pd.Series(cell): the keys of a dict, the label 0 (written "0") of a scalar
SeriesIndex(cell) == IF cell = NaN THEN {"0"} ELSE DOMAIN cell.d

\* pd.concat([df.drop('unit', axis=1), df['unit'].apply(pd.Series)], axis=1)
ExpandUnit(df) ==
    LET lifted == UNION {SeriesIndex(df.rows[i].unit) : i \in DOMAIN df.rows}
        kept == df.columns \ {"unit"}
    IN [t |-> "df",
        columns |-> kept \cup lifted,
        rows |-> [i \in DOMAIN df.rows |->
                    [c \in kept \cup lifted |->
                       IF c \in kept THEN df.rows[i][c]
                       ELSE IF df.rows[i].unit # NaN /\ c \in DOMAIN df.rows[i].unit.d
                            THEN df.rows[i].unit.d[c]
                            ELSE NaN]]]

\* sort key order of sort_values: timestamps ascending, NaT last
KeyLeq(a, b) == b = NaT \/ (a # NaT /\ a.min <= b.min)

RECURSIVE Insert(_, _)
\* one step of the insertion sort numpy uses for short arrays (stable)
Insert(sorted, row) ==
    IF sorted = <<>> THEN <<row>>
    ELSE IF KeyLeq(sorted[Len(sorted)].arrival_datetime, row.arrival_datetime)
         THEN Append(sorted, row)
         ELSE Append(Insert(SubSeq(sorted, 1, Len(sorted) - 1), row), sorted[Len(sorted)])

RECURSIVE SortRows(_)
SortRows(rows) ==
    IF rows = <<>> THEN <<>>
    ELSE Insert(SortRows(SubSeq(rows, 1, Len(rows) - 1)), rows[Len(rows)])

\* variant that leaves the rows in file order
SortValuesUnsorted(rows) == rows

\* df.sort_values("arrival_datetime").reset_index(drop=True), on the rows
SortValues(rows) == SortRows(rows)

\* lines 25-36: the table of a GATE list
ArrivalsTable(arrivals_gate) ==
    LET df0 == FromRecords(arrivals_gate) IN
    IF Empty(df0) THEN df0
    ELSE
      LET df1 == IF "unit" \in df0.columns THEN ExpandUnit(df0) ELSE df0 IN
      IF "arrival_datetime" \notin df1.columns THEN Raise("KeyError")
      ELSE IF \E i \in DOMAIN df1.rows : IsRaise(to_datetime(df1.rows[i].arrival_datetime))
      THEN Raise("ValueError")
      ELSE
        LET parsed == [i \in DOMAIN df1.rows |->
                         [df1.rows[i] EXCEPT !.arrival_datetime = to_datetime(@)]]
        IN [t |-> "df", columns |-> df1.columns, rows |-> SortValues(parsed)]

\* variant that reads the key with a default: raw.get("arrivals", {})
build_arrivals_df_default(raw) ==
    IF raw = PyNone THEN PyNone
    ELSE ArrivalsTable(Get(Get(raw, "arrivals", EmptyDict), "GATE", <<>>))

build_arrivals_df(raw) ==
    IF raw = PyNone \/ "arrivals" \notin DOMAIN raw THEN PyNone
    ELSE ArrivalsTable(Get(raw.arrivals, "GATE", <<>>))

---------------------------------------------------------------------------
(* build_workers_df *)

DigitChars == <<"0", "1", "2", "3", "4", "5", "6", "7", "8", "9">>
IsDigit(c) == \E d \in 1..10 : DigitChars[d] = c
DigitVal(c) == (CHOOSE d \in 1..10 : DigitChars[d] = c) - 1

RECURSIVE ParseNat(_)
\* value of a sequence of digit characters
ParseNat(chars) ==
    IF chars = <<>> THEN 0
    ELSE 10 * ParseNat(SubSeq(chars, 1, Len(chars) - 1)) + DigitVal(chars[Len(chars)])

\* position of the first "." of a string, 0 if there is none
DotPos(chars) ==
    IF \E i \in 1..Len(chars) : chars[i] = "."
    THEN CHOOSE i \in 1..Len(chars) :
            chars[i] = "." /\ \A j \in 1..(i - 1) : chars[j] # "."
    ELSE 0

\* float(s) of a string: digits, optionally "." and digits; otherwise ValueError
ParseFloat(chars) ==
    LET dot == DotPos(chars)
        whole == IF dot = 0 THEN chars ELSE SubSeq(chars, 1, dot - 1)
        frac == IF dot = 0 THEN <<>> ELSE SubSeq(chars, dot + 1, Len(chars))
    IN IF /\ \A i \in 1..Len(whole) : IsDigit(whole[i])
          /\ \A i \in 1..Len(frac) : IsDigit(frac[i])
          /\ Len(whole) + Len(frac) > 0
       THEN JFloat(ParseNat(whole), IF frac = <<>> THEN 0 ELSE DigitVal(frac[1]))
       ELSE Raise("ValueError")

\* .astype(float) of one cell
AsFloat(cell) ==
    CASE cell.t = "int" -> JFloat(cell.i, 0)
      [] cell.t = "float" -> cell
      [] cell.t = "str" -> ParseFloat(cell.s)

\* .astype(int) of a float: truncation
AsInt(x) == x.w

RECURSIVE IntToStr(_)
\* str(n) of a non-negative int, as a sequence of characters
IntToStr(n) ==
    IF n < 10 THEN <<DigitChars[n + 1]>>
    ELSE Append(IntToStr(n \div 10), DigitChars[(n % 10) + 1])

\* .astype(float).astype(int).astype(str) of one non-missing cell
CoerceStation(cell) ==
    LET x == AsFloat(cell) IN
    IF IsRaise(x) THEN x ELSE JStr(IntToStr(AsInt(x)))

\* the literal the code gives a worker without a zone (a Cyrillic word for "idle")
Idle == "Prostoy"

\* df_st["station_id"].astype(str): str() of a JSON key, which is a string
StationIdStr(key) == key

\* df_st.set_index("station_id")["zone_id"].to_dict()
StationToZone(stations) ==
    [k \in {StationIdStr(key) : key \in DOMAIN stations} |->
        LET key == CHOOSE key \in DOMAIN stations : StationIdStr(key) = k
        IN IF "zone_id" \in DOMAIN stations[key]
           THEN [t |-> "str", zone |-> stations[key].zone_id] ELSE NaN]

\* .map(station_to_zone).fillna(Idle) of one cell
MapZone(cell, station_to_zone) ==
    IF IsNA(cell) \/ cell.s \notin DOMAIN station_to_zone THEN Idle
    ELSE IF station_to_zone[cell.s] = NaN THEN Idle
    ELSE station_to_zone[cell.s].zone

\* lines 51-73: the table with current_station coerced and current_zone added
ResolveZones(df, raw) ==
    LET withZone(rows) ==
          [t |-> "df",
           columns |-> df.columns \cup {"current_zone"},
           rows |-> [k \in DOMAIN df.rows |->
                       [c \in df.columns \cup {"current_zone"} |->
                          IF c = "current_zone" THEN rows[k].current_zone
                          ELSE IF c = "current_station" THEN rows[k].current_station
                          ELSE df.rows[k][c]]]]
        idle == [k \in DOMAIN df.rows |->
                   [current_zone |-> Idle,
                    current_station |-> Get(df.rows[k], "current_station", NaN)]]
    IN
    IF "stations" \notin DOMAIN raw THEN withZone(idle)
    ELSE IF "zone_id" \notin RecordKeys(raw.stations) THEN Raise("KeyError")
    ELSE IF "current_station" \notin df.columns THEN withZone(idle)
    ELSE
      LET station_to_zone == StationToZone(raw.stations)
          coerced == [k \in DOMAIN df.rows |->
                        IF IsNA(df.rows[k].current_station)
                        THEN df.rows[k].current_station
                        ELSE CoerceStation(df.rows[k].current_station)]
      IN IF \E k \in DOMAIN df.rows : IsRaise(coerced[k]) THEN Raise("ValueError")
         ELSE withZone([k \in DOMAIN df.rows |->
                          [current_zone |-> MapZone(coerced[k], station_to_zone),
                           current_station |-> coerced[k]]])

\* lines 75-79: performance_units expanded into perf_<key> columns
ExpandPerformance(df) ==
    IF "performance_units" \notin df.columns THEN df
    ELSE
      LET lifted == UNION {SeriesIndex(df.rows[k].performance_units) : k \in DOMAIN df.rows}
          perf == {"perf_" \o key : key \in lifted}
          kept == df.columns \ {"performance_units"}
      IN [t |-> "df",
          columns |-> kept \cup perf,
          rows |-> [k \in DOMAIN df.rows |->
                      [c \in kept \cup perf |->
                         IF c \in kept THEN df.rows[k][c]
                         ELSE LET cell == df.rows[k].performance_units
                                  key == CHOOSE key \in lifted : "perf_" \o key = c
                              IN IF cell # NaN /\ key \in DOMAIN cell.d
                                 THEN cell.d[key] ELSE NaN]]]

build_workers_df(raw) ==
    IF raw = PyNone \/ "workers" \notin DOMAIN raw THEN PyNone
    ELSE
      LET workers_outer == raw.workers
          workers_dict == IF "workers" \in DOMAIN workers_outer
                          THEN workers_outer.workers ELSE workers_outer
          df_zoned == ResolveZones(FromDictIndex(workers_dict, "worker_id"), raw)
      IN IF IsRaise(df_zoned) THEN df_zoned ELSE ExpandPerformance(df_zoned)

---------------------------------------------------------------------------
(* load_json_file and the script body *)

\* An uploaded file is its kind and, when it is well-formed JSON, the tree
\* json.load builds from it.
NoFile == [kind |-> "none"]
BadUtf8 == [kind |-> "badutf8"]
BadJson == [kind |-> "badjson"]
JsonFile(tree) == [kind |-> "json", tree |-> tree]

\* the str branch (a path) is not reachable from st.file_uploader
load_json_file(uploaded_file) ==
    CASE uploaded_file.kind = "none" -> PyNone
      [] uploaded_file.kind = "badutf8" -> Raise("UnicodeDecodeError")
      [] uploaded_file.kind = "badjson" -> Raise("JSONDecodeError")
      [] uploaded_file.kind = "json" -> uploaded_file.tree

\* variant that clears the session document when the load raises
StoreLoadedClearing(old, loaded) == IF IsRaise(loaded) THEN PyNone ELSE loaded

\* lines 132-139: the assignment happens only if load_json_file returns
StoreLoaded(old, loaded) == IF IsRaise(loaded) THEN old ELSE loaded

\* lines 131-141: what the upload tab reports; .items() of a non-dict raises
UploadMessage(file, loaded, show_structure) ==
    IF file = NoFile THEN "info"
    ELSE IF IsRaise(loaded) THEN "error"
    ELSE IF show_structure /\ loaded = PyNone THEN "error"
    ELSE "success"

\* a table variable that the last run did not assign
NotRun == [t |-> "notrun"]

\* lines 156-202: the arrivals charts read postings_num of a non-empty table
ArrivalsTabRaises(df) ==
    IsRaise(df) \/ (IsDF(df) /\ ~Empty(df) /\ "postings_num" \notin df.columns)

\* One run of the script (lines 127-307) with the uploader holding `file`
\* and the structure checkbox at `show_structure`.  An exception that
\* escapes a tab ends the run, so the later tabs assign nothing.
Rerun(file, show_structure) ==
    LET loaded == load_json_file(file)
        raw == IF file = NoFile THEN raw_json ELSE StoreLoaded(raw_json, loaded)
        arrivals == IF raw = PyNone THEN NotRun ELSE build_arrivals_df(raw)
        workers == IF raw = PyNone \/ ArrivalsTabRaises(arrivals)
                   THEN NotRun ELSE build_workers_df(raw)
        stations == IF raw = PyNone \/ ArrivalsTabRaises(arrivals) \/ IsRaise(workers)
                    THEN NotRun ELSE build_stations_df(raw)
    IN /\ uploaded' = file
       /\ raw_json' = raw
       /\ upload_msg' = UploadMessage(file, loaded, show_structure)
       /\ df_arrivals' = arrivals
       /\ df_workers' = workers
       /\ df_st' = stations

---------------------------------------------------------------------------
(* Input documents *)

Absent == [t |-> "absent"]

Some(v) == [t |-> "some", v |-> v]

\* the document with the given top-level values; each argument is Absent or Some(value)
MakeDoc(arrivals, workers, stations) ==
    [k \in (IF arrivals = Absent THEN {} ELSE {"arrivals"})
          \cup (IF workers = Absent THEN {} ELSE {"workers"})
          \cup (IF stations = Absent THEN {} ELSE {"stations"}) |->
        CASE k = "arrivals" -> arrivals.v
          [] k = "workers" -> workers.v
          [] k = "stations" -> stations.v]

SeqsUpTo(S, n) == UNION {[1..k -> S] : k \in 0..n}

(* arrivals *)
Minutes == {0, 30}
Timestamps == {[t |-> "str", hh |-> h, mm |-> m] : h \in 0..MaxHour, m \in Minutes}
BadTimestamp == [t |-> "str", text |-> "n/a"]
SampleUnit == JDict("unit_id" :> 1)

ArrivalRecords ==
    {[arrival_datetime |-> ts, postings_num |-> 1] : ts \in Timestamps}
    \cup {[arrival_datetime |-> CHOOSE ts \in Timestamps : ts.hh = 0 /\ ts.mm = 30,
           postings_num |-> 1, unit |-> SampleUnit],
          [arrival_datetime |-> BadTimestamp, postings_num |-> 1],
          [postings_num |-> 1],
          [arrival_datetime |-> CHOOSE ts \in Timestamps : ts.hh = 0 /\ ts.mm = 0]}

ArrivalsValues ==
    {EmptyDict} \cup {("GATE" :> gate) : gate \in SeqsUpTo(ArrivalRecords, MaxGate)}

(* stations *)
StationNums == {10, 12}
Zones == {"A", "B"}
PlainKey(n) == IntToStr(n)
FloatKey(n) == IntToStr(n) \o <<".", "0">>
StationKeys == {PlainKey(n) : n \in StationNums} \cup {FloatKey(n) : n \in StationNums}

FlowTypes == {"SORT", "NONSORT", "OTHER"}
AggFlows == {"SORT", "NONSORT", "RETURN"}
Units == {[flow_type |-> f, postings_num |-> p] : f \in FlowTypes, p \in 1..MaxPostings}
\* units that lack one of the two fields
PartialUnits == {[flow_type |-> "SORT"], [postings_num |-> 1]}
AggMaps == UNION {[fs -> 1..MaxPostings] : fs \in (SUBSET AggFlows) \ {{}}}

BacklogAll ==
    {PyNone, JDict(EmptyDict)}
    \cup {JDict(m) : m \in AggMaps}
    \cup {JDict("units" :> us) : us \in SeqsUpTo(Units, MaxUnits)}
BacklogFew ==
    {Absent, PyNone, JDict(EmptyDict)}
    \cup {JDict("SORT" :> p) : p \in 1..MaxPostings}
    \cup {JDict("units" :> us) : us \in SeqsUpTo(Units \cup PartialUnits, 1)}

Station(zone, backlog) ==
    IF backlog = Absent THEN [zone_id |-> zone]
    ELSE [zone_id |-> zone, backlog |-> backlog]

BacklogStations ==
    {(PlainKey(10) :> Station("A", b)) : b \in BacklogAll}
    \cup {(PlainKey(10) :> Station("A", b1) @@ PlainKey(12) :> Station("B", b2)) :
            b1 \in BacklogFew, b2 \in BacklogFew}

ZoneStations ==
    {EmptyDict}
    \cup {(k :> Station(z, Absent)) : k \in StationKeys, z \in Zones}
    \cup {(ks[1] :> Station("A", Absent) @@ ks[2] :> Station("B", Absent)) :
            ks \in {p \in StationKeys \X StationKeys : p[1] # p[2]}}

(* workers *)
CurrentStations ==
    {Absent, PyNone, JInt(7), JStr(<<"x">>)}
    \cup UNION {{JInt(n), JFloat(n, 0), JFloat(n, 5), JStr(PlainKey(n)), JStr(FloatKey(n))} :
                n \in StationNums}
CurrentStationsFew == {Absent, JInt(10), JFloat(12, 0), JStr(FloatKey(12))}

Skills == {"A", "B"}
PerfDicts == {JDict(m) : m \in UNION {[ks -> 1..MaxScore] : ks \in (SUBSET Skills) \ {{}}}}
PerfWorkers ==
    {EmptyDict}
    \cup {("performance_units" :> d) : d \in PerfDicts}
    \cup {("performance" :> d) : d \in PerfDicts}

Worker(current_station) ==
    IF current_station = Absent THEN EmptyDict
    ELSE [current_station |-> current_station]

WorkerMaps ==
    {("w1" :> Worker(c)) : c \in CurrentStations}
    \cup {("w1" :> Worker(c1) @@ "w2" :> Worker(c2)) :
            c1 \in CurrentStationsFew, c2 \in CurrentStationsFew}
PerfWorkerMaps ==
    {("w1" :> w) : w \in PerfWorkers}
    \cup {("w1" :> w1 @@ "w2" :> w2) : w1 \in PerfWorkers, w2 \in PerfWorkers}

\* the two accepted shapes of raw["workers"]: the map itself, or wrapped
Shapes(workers) == {workers, ("workers" :> workers)}

SampleArrivals ==
    ("GATE" :> <<[arrival_datetime |-> [t |-> "str", hh |-> 0, mm |-> 30], postings_num |-> 1],
                 [arrival_datetime |-> [t |-> "str", hh |-> 0, mm |-> 0], postings_num |-> 1]>>)
SampleWorkers == ("w1" :> [current_station |-> JFloat(10, 0)])
SampleStations == (PlainKey(10) :> Station("A", JDict("units" :> <<[flow_type |-> "SORT", postings_num |-> 1]>>)))

\* documents uploaded in the session specification
SessionDocs ==
    {PyNone}
    \cup {MakeDoc(a, w, s) :
            a \in {Absent, Some(EmptyDict), Some("GATE" :> <<>>), Some(SampleArrivals)},
            w \in {Absent, Some(SampleWorkers), Some("workers" :> SampleWorkers)},
            s \in {Absent, Some(SampleStations), Some(PlainKey(10) :> Station("A", Absent))}}

\* documents the normalizers are applied to
Docs ==
    SessionDocs
    \cup {MakeDoc(Some(a), Absent, Absent) : a \in ArrivalsValues}
    \cup {MakeDoc(Absent, Absent, Some(s)) : s \in BacklogStations}
    \cup UNION {{MakeDoc(Absent, Some(shaped), s) : shaped \in Shapes(w)} :
                 w \in WorkerMaps, s \in {Absent} \cup {Some(z) : z \in ZoneStations}}
    \cup UNION {{MakeDoc(Absent, Some(shaped), Absent) : shaped \in Shapes(w)} :
                 w \in PerfWorkerMaps}

---------------------------------------------------------------------------
(* Specifications *)

SessionUploads == {NoFile, BadUtf8, BadJson} \cup {JsonFile(d) : d \in SessionDocs}

\* a fresh session: nothing uploaded, nothing stored, no tab has run
Init ==
    /\ raw_json = PyNone
    /\ uploaded = NoFile
    /\ upload_msg = "info"
    /\ df_arrivals = NotRun
    /\ df_workers = NotRun
    /\ df_st = NotRun

Next == \E file \in SessionUploads, show_structure \in BOOLEAN : Rerun(file, show_structure)

Spec == Init /\ [][Next]_vars

\* a session that holds some document and whose tabs are about to run
InitNormalize ==
    /\ raw_json \in Docs
    /\ uploaded = NoFile
    /\ upload_msg = "info"
    /\ df_arrivals = NotRun
    /\ df_workers = NotRun
    /\ df_st = NotRun

NextNormalize == Rerun(NoFile, FALSE)

SpecNormalize == InitNormalize /\ [][NextNormalize]_vars

---------------------------------------------------------------------------
(* Properties *)

RECURSIVE SumCells(_, _)
\* sum of the cells of a row over a set of columns
SumCells(row, cols) ==
    IF cols = {} THEN 0
    ELSE LET c == CHOOSE c \in cols : TRUE IN row[c] + SumCells(row, cols \ {c})

\* the backlog_<flow_type> columns a table carries
FlowColumns(df) ==
    {c \in df.columns : \E f \in FlowTypes \cup AggFlows : c = "backlog_" \o f}

\* the stations tab ran in the last run
StationsTabRan == df_st # NotRun

C2_ArrivalsSorted ==
    (IsDF(df_arrivals) /\ ~Empty(df_arrivals)) =>
        \A i \in DOMAIN df_arrivals.rows : \A j \in DOMAIN df_arrivals.rows :
            i < j =>
              LET a == df_arrivals.rows[i].arrival_datetime
                  b == df_arrivals.rows[j].arrival_datetime
              IN IF a = NaT THEN b = NaT
                 ELSE b = NaT \/ a.min <= b.min

C2_Witness ==
    /\ IsDF(df_arrivals)
    /\ Len(df_arrivals.rows) >= 2
    /\ \A i \in 1..2 : "arrival_datetime" \in DOMAIN raw_json.arrivals.GATE[i]
    /\ to_datetime(raw_json.arrivals.GATE[1].arrival_datetime).min
         > to_datetime(raw_json.arrivals.GATE[2].arrival_datetime).min
    /\ df_arrivals.rows[1].arrival_datetime.min < df_arrivals.rows[2].arrival_datetime.min

\* a station record with no backlog key, a null backlog or an empty one
LacksBacklog(station) ==
    \/ "backlog" \notin DOMAIN station
    \/ station.backlog = PyNone
    \/ station.backlog = JDict(EmptyDict)

\* C3: whenever the stations tab runs on a document with stations, it yields a
\* table in which every station lacking a backlog has a row with backlog_SORT,
\* backlog_NONSORT and backlog_total equal to 0.
C3_MissingBacklogIsZeroRow ==
    (StationsTabRan /\ "stations" \in DOMAIN raw_json) =>
        /\ IsDF(df_st)
        /\ \A k \in DOMAIN raw_json.stations :
              LacksBacklog(raw_json.stations[k]) =>
                 /\ k \in DOMAIN df_st.rows
                 /\ {"backlog_SORT", "backlog_NONSORT", "backlog_total"} \subseteq df_st.columns
                 /\ df_st.rows[k].backlog_SORT = 0
                 /\ df_st.rows[k].backlog_NONSORT = 0
                 /\ df_st.rows[k].backlog_total = 0

\* the number a station identifier denotes, as <<whole, tenths>>
NumberOf(cell) == LET x == AsFloat(cell) IN <<x.w, x.f>>
IsNumeric(cell) == ~IsNA(cell) /\ ~IsRaise(AsFloat(cell))

\* C4: in every workers table, a worker whose current_station denotes the same
\* number as the key of a station (the only station with that number) has that
\* station's zone_id as current_zone, whatever the numeric form of either.
C4_ZoneResolutionFormInsensitive ==
    (IsDF(df_workers) /\ "stations" \in DOMAIN raw_json) =>
        LET workers_dict == IF "workers" \in DOMAIN raw_json.workers
                            THEN raw_json.workers.workers ELSE raw_json.workers
            stations == raw_json.stations
        IN \A w \in DOMAIN workers_dict : \A k \in DOMAIN stations :
              (/\ "current_station" \in DOMAIN workers_dict[w]
               /\ IsNumeric(workers_dict[w].current_station)
               /\ IsNumeric(JStr(k))
               /\ NumberOf(workers_dict[w].current_station) = NumberOf(JStr(k))
               /\ \A k2 \in DOMAIN stations \ {k} :
                     IsNumeric(JStr(k2)) => NumberOf(JStr(k2)) # NumberOf(JStr(k)))
              => df_workers.rows[w].current_zone = stations[k].zone_id

RECURSIVE SumTagged(_, _, _)
\* sum of postings_num over the units at the positions idx that carry tag ft
SumTagged(units, idx, ft) ==
    IF idx = {} THEN 0
    ELSE LET i == CHOOSE i \in idx : TRUE IN
         (IF "flow_type" \in DOMAIN units[i] /\ units[i].flow_type = ft
             /\ "postings_num" \in DOMAIN units[i]
          THEN units[i].postings_num ELSE 0)
         + SumTagged(units, idx \ {i}, ft)

HasUnits(station) ==
    /\ "backlog" \in DOMAIN station
    /\ station.backlog # PyNone
    /\ "units" \in DOMAIN station.backlog.d

\* C5: in every stations table, a station whose backlog has a units list has
\* backlog_SORT = sum of postings_num over its SORT units, backlog_NONSORT =
\* sum over its NONSORT units, and backlog_total = the sum of those two; units
\* of any other flow type add to none of them.
C5_UnitsDecomposition ==
    IsDF(df_st) =>
        \A k \in DOMAIN raw_json.stations :
            HasUnits(raw_json.stations[k]) =>
               LET units == raw_json.stations[k].backlog.d.units
                   sort == SumTagged(units, DOMAIN units, "SORT")
                   nonsort == SumTagged(units, DOMAIN units, "NONSORT")
               IN /\ df_st.rows[k].backlog_SORT = sort
                  /\ df_st.rows[k].backlog_NONSORT = nonsort
                  /\ df_st.rows[k].backlog_total = sort + nonsort

C5_Witness ==
    /\ IsDF(df_st)
    /\ \E k \in DOMAIN raw_json.stations :
          /\ HasUnits(raw_json.stations[k])
          /\ LET units == raw_json.stations[k].backlog.d.units
             IN \A f \in FlowTypes : \E i \in DOMAIN units :
                                           "flow_type" \in DOMAIN units[i] /\ units[i].flow_type = f
          /\ df_st.rows[k].backlog_SORT > 0
          /\ df_st.rows[k].backlog_NONSORT > 0
          /\ df_st.rows[k].backlog_total = df_st.rows[k].backlog_SORT + df_st.rows[k].backlog_NONSORT

\* C6: a normalizer whose top-level key is absent from the session document
\* yields None (neither an exception nor a table), and so does every
\* normalizer when no document is loaded.
C6_AbsentKeyIsNoData ==
    IF raw_json = PyNone
    THEN /\ build_arrivals_df(raw_json) = PyNone
         /\ build_workers_df(raw_json) = PyNone
         /\ build_stations_df(raw_json) = PyNone
    ELSE /\ (df_arrivals # NotRun /\ "arrivals" \notin DOMAIN raw_json) => df_arrivals = PyNone
         /\ (df_workers # NotRun /\ "workers" \notin DOMAIN raw_json) => df_workers = PyNone
         /\ (df_st # NotRun /\ "stations" \notin DOMAIN raw_json) => df_st = PyNone

C6_Witness ==
    /\ raw_json # PyNone
    /\ DOMAIN raw_json = {"stations"}
    /\ uploaded.kind = "json"
    /\ df_arrivals = PyNone
    /\ df_workers = PyNone
    /\ IsDF(df_st)

\* C7: when arrivals is present without a GATE key the arrivals tab gets None,
\* and when GATE is an empty list it gets an empty table.
C7_AbsentGateIsNoData ==
    (raw_json # PyNone /\ "arrivals" \in DOMAIN raw_json /\ df_arrivals # NotRun) =>
        IF "GATE" \notin DOMAIN raw_json.arrivals THEN df_arrivals = PyNone
        ELSE raw_json.arrivals.GATE = <<>> => (IsDF(df_arrivals) /\ Empty(df_arrivals))

\* a backlog that is a non-empty mapping from flow type to count
IsAggregated(station) ==
    /\ "backlog" \in DOMAIN station
    /\ station.backlog # PyNone
    /\ DOMAIN station.backlog.d # {}
    /\ "units" \notin DOMAIN station.backlog.d

\* C8: in every stations table, a station whose backlog is a pre-aggregated
\* mapping has, for every key f of the mapping, a column backlog_<f> holding
\* that count, and 0 in the backlog_<flow> columns of the other flow types.
C8_AggregatedBacklogExpanded ==
    IsDF(df_st) =>
        \A k \in DOMAIN raw_json.stations :
            IsAggregated(raw_json.stations[k]) =>
               LET counts == raw_json.stations[k].backlog.d IN
               /\ \A f \in DOMAIN counts :
                     /\ ("backlog_" \o f) \in df_st.columns
                     /\ df_st.rows[k]["backlog_" \o f] = counts[f]
               /\ \A c \in FlowColumns(df_st) \ {"backlog_" \o f : f \in DOMAIN counts} :
                     df_st.rows[k][c] = 0

\* C9: in every workers table, a worker's performance object is expanded into
\* one perf_<key> column per entry and the nested column is removed, under
\* either key name, performance or performance_units.
C9_PerformanceExpandedUnderBothKeys ==
    IsDF(df_workers) =>
        LET workers_dict == IF "workers" \in DOMAIN raw_json.workers
                            THEN raw_json.workers.workers ELSE raw_json.workers
        IN \A w \in DOMAIN workers_dict : \A key \in {"performance", "performance_units"} :
              key \in DOMAIN workers_dict[w] =>
                 /\ key \notin df_workers.columns
                 /\ \A skill \in DOMAIN workers_dict[w][key].d :
                       /\ ("perf_" \o skill) \in df_workers.columns
                       /\ df_workers.rows[w]["perf_" \o skill] = workers_dict[w][key].d[skill]

\* the files whose load raises
FailingFiles == {BadUtf8, BadJson}

\* C10: a run whose upload fails to load leaves the session document as it
\* was and the tabs read that document; the session document changes only in
\* a run whose upload loads, and then to the loaded tree.
C10_FailedLoadKeepsDocument ==
    [][/\ uploaded' \in FailingFiles =>
             /\ raw_json' = raw_json
             /\ upload_msg' = "error"
             /\ df_arrivals' = IF raw_json = PyNone THEN NotRun ELSE build_arrivals_df(raw_json)
       /\ raw_json' # raw_json =>
             /\ uploaded'.kind = "json"
             /\ raw_json' = uploaded'.tree]_vars

C10_Witness ==
    /\ uploaded \in FailingFiles
    /\ upload_msg = "error"
    /\ raw_json # PyNone
    /\ IsDF(df_arrivals)
    /\ ~Empty(df_arrivals)

====
